---- MODULE Spec2Model ----
(***************************************************************************)
(* Shape validation and area computation of src-tauri/src/lib.rs.          *)
(*                                                                         *)
(* Every coordinate, radius and area in the source is an f32.  The model   *)
(* keeps that type: a value is an IEEE-754 binary32 datum (finite, +-inf   *)
(* or NaN) and +, -, * round to nearest, ties to even, overflow to         *)
(* infinity and underflow gradually, as the hardware does.  A finite value *)
(* is m * 2^e with 0 <= m < 2^24; it is kept canonical (m >= 2^23 unless   *)
(* e = Emin).  The sign of zero is not kept: no result the commands return *)
(* can tell +0 from -0 (every area is an absolute value, a product of      *)
(* absolute values, or PI times a square).                                 *)
(***************************************************************************)
EXTENDS Integers, Sequences, FiniteSets, TLC

VARIABLES cmd, shape, res, calls

vars == <<cmd, shape, res, calls>>

(***************************************************************************)
(* f32                                                                     *)
(***************************************************************************)

\* Significand width of f32 (23 stored bits and the hidden bit).
MantBits == 24
\* Exponent of the least significant bit of the smallest subnormal.
Emin == -149
\* Exponent of the least significant bit of the largest finite value.
Emax == 104

Max(a, b) == IF a >= b THEN a ELSE b
Min(a, b) == IF a <= b THEN a ELSE b
Abs(n) == IF n < 0 THEN -n ELSE n

\* The number of bits of n >= 0.
RECURSIVE BitLen(_)
BitLen(n) ==
    IF n >= 256 THEN 8 + BitLen(n \div 256)
    ELSE IF n >= 16 THEN 4 + BitLen(n \div 16)
    ELSE IF n >= 4 THEN 2 + BitLen(n \div 4)
    ELSE IF n >= 2 THEN 2
    ELSE n

NaN == [k |-> "nan", s |-> 0, m |-> 0, e |-> 0]
Inf(sg) == [k |-> "inf", s |-> sg, m |-> 0, e |-> 0]
Zero == [k |-> "fin", s |-> 0, m |-> 0, e |-> 0]

IsNaN(a) == a.k = "nan"
IsInf(a) == a.k = "inf"
IsFin(a) == a.k = "fin"
IsZero(a) == a.k = "fin" /\ a.m = 0

\* A finite result with significand mm (already at most MantBits wide) and
\* exponent ee: zero, a finite value, or infinity when the exponent overflows.
Pack(sg, mm, ee) ==
    IF mm = 0 THEN Zero
    ELSE IF ee > Emax THEN Inf(sg)
    ELSE [k |-> "fin", s |-> sg, m |-> mm, e |-> ee]

\* Round (N + f) * 2^ee to f32, where N < 2^30 and 0 <= f < 1 with f > 0
\* iff sticky (sticky only when N is wider than MantBits).
RoundPack(sg, N, ee, sticky) ==
    LET bits == BitLen(N)
        sh == Max(bits - MantBits, Emin - ee)
    IN  IF N = 0 THEN Zero
        ELSE IF sh <= 0
        THEN LET up == Min(MantBits - bits, ee - Emin)
             IN  Pack(sg, N * 2^up, ee - up)
        ELSE IF sh > 30 THEN Zero
        ELSE LET q == N \div 2^sh
                 r == N % 2^sh
                 half == 2^(sh - 1)
                 roundUp == r > half \/ (r = half /\ (sticky \/ q % 2 = 1))
                 m1 == IF roundUp THEN q + 1 ELSE q
             IN  IF m1 = 2^MantBits
                 THEN Pack(sg, 2^(MantBits - 1), ee + sh + 1)
                 ELSE Pack(sg, m1, ee + sh)

\* The f32 nearest to the integer n, and the f32 m * 2^e.
FromInt(n) == RoundPack(IF n < 0 THEN 1 ELSE 0, Abs(n), 0, FALSE)
Scaled(mm, ee) == RoundPack(0, mm, ee, FALSE)

FNeg(a) == IF IsNaN(a) \/ IsZero(a) THEN a ELSE [a EXCEPT !.s = 1 - a.s]

\* f32::abs
FAbs(a) == IF IsNaN(a) THEN a ELSE [a EXCEPT !.s = 0]

\* |a| < |b| for finite a and b.
MagLt(a, b) ==
    IF a.m = 0 THEN b.m > 0
    ELSE IF b.m = 0 THEN FALSE
    ELSE a.e < b.e \/ (a.e = b.e /\ a.m < b.m)

\* a < b on f32: false when either is NaN.
FLt(a, b) ==
    IF IsNaN(a) \/ IsNaN(b) THEN FALSE
    ELSE IF a = b THEN FALSE
    ELSE IF IsInf(a) THEN a.s = 1
    ELSE IF IsInf(b) THEN b.s = 0
    ELSE IF a.s # b.s THEN a.s = 1
    ELSE IF a.s = 0 THEN MagLt(a, b) ELSE MagLt(b, a)

\* a > b on f32.
FGt(a, b) == FLt(b, a)

\* a <= b on f32: false when either is NaN.
FLe(a, b) == ~IsNaN(a) /\ ~IsNaN(b) /\ ~FLt(b, a)

\* f32::min and f32::max: a NaN operand yields the other operand.
FMin(a, b) == IF IsNaN(a) THEN b ELSE IF IsNaN(b) THEN a ELSE IF FLt(b, a) THEN b ELSE a
FMax(a, b) == IF IsNaN(a) THEN b ELSE IF IsNaN(b) THEN a ELSE IF FLt(a, b) THEN b ELSE a

\* The signed significand of a finite value.
SMant(a) == IF a.s = 1 THEN -a.m ELSE a.m

\* hi + lo for finite nonzero values with hi.e >= lo.e.
AddAligned(hi, lo) ==
    LET d == hi.e - lo.e
    IN  IF d <= 5
        THEN LET X == SMant(hi) * 2^d + SMant(lo)
             IN  RoundPack(IF X < 0 THEN 1 ELSE 0, Abs(X), lo.e, FALSE)
        ELSE LET sh2 == d - 5
                 low == IF sh2 > MantBits THEN 0 ELSE lo.m \div 2^sh2
                 st == IF sh2 > MantBits THEN TRUE ELSE lo.m % 2^sh2 # 0
                 H == hi.m * 32
                 N == IF hi.s = lo.s THEN H + low
                      ELSE H - low - (IF st THEN 1 ELSE 0)
             IN  RoundPack(hi.s, N, hi.e - 5, st)

\* a + b on f32.
FAdd(a, b) ==
    IF IsNaN(a) \/ IsNaN(b) THEN NaN
    ELSE IF IsInf(a) THEN (IF IsInf(b) /\ b.s # a.s THEN NaN ELSE a)
    ELSE IF IsInf(b) THEN b
    ELSE IF a.m = 0 THEN b
    ELSE IF b.m = 0 THEN a
    ELSE IF a.e >= b.e THEN AddAligned(a, b) ELSE AddAligned(b, a)

\* a - b on f32.
FSub(a, b) == FAdd(a, FNeg(b))

\* a * b on f32.  The 48-bit product of the significands is formed in two
\* 24-bit halves H and L, then rounded once.
FMul(a, b) ==
    LET sg == IF a.s = b.s THEN 0 ELSE 1
    IN  IF IsNaN(a) \/ IsNaN(b) THEN NaN
        ELSE IF IsInf(a) \/ IsInf(b)
        THEN (IF IsZero(a) \/ IsZero(b) THEN NaN ELSE Inf(sg))
        ELSE IF a.m = 0 \/ b.m = 0 THEN Zero
        ELSE LET ah == a.m \div 4096
                 al == a.m % 4096
                 bh == b.m \div 4096
                 bl == b.m % 4096
                 mid == ah * bl + al * bh
                 Lt == al * bl + (mid % 4096) * 4096
                 L == Lt % 2^MantBits
                 H == ah * bh + mid \div 4096 + Lt \div 2^MantBits
                 t == Min(MantBits, 30 - BitLen(H))
             IN  IF H = 0 THEN RoundPack(sg, L, a.e + b.e, FALSE)
                 ELSE RoundPack(sg, H * 2^t + L \div 2^(MantBits - t),
                                a.e + b.e + MantBits - t,
                                L % 2^(MantBits - t) # 0)

\* a / 2f32: scaling by a power of two, the same rounding as multiplying by 0.5.
FHalf(a) == FMul(a, Scaled(1, -1))

\* a.powi(2)
FSquare(a) == FMul(a, a)

\* std::f32::consts::PI = 0x40490FDB = 13176795 * 2^-22
PI == Scaled(13176795, -22)

(***************************************************************************)
(* Shapes and results                                                      *)
(***************************************************************************)

\* struct Point { x: f32, y: f32 }
Point(px, py) == [x |-> px, y |-> py]

\* struct Rectangle { top_left: Point, bottom_right: Point }
Rectangle(tl, br) == [type |-> "Rectangle", top_left |-> tl, bottom_right |-> br]

\* struct Circle { center: Point, radius: f32 }
Circle(c, r) == [type |-> "Circle", center |-> c, radius |-> r]

\* struct Polygon { points: Vec<Point> }
Polygon(pts) == [type |-> "Polygon", points |-> pts]

\* Result<T, String>
Ok(v) == [tag |-> "Ok", val |-> v]
Err(text) == [tag |-> "Err", msg |-> text]

IsOk(r) == r.tag = "Ok"
IsErr(r) == r.tag = "Err"

RectangleError == "Length or hieght of a rectangle cannot be less than zero!"
CircleError == "Radius of circle should not be zero ro less!"
PolygonError == "A poligon should have 3 or more sides!"
GenericError == "The shape object is invalid!"

(***************************************************************************)
(* Rectangle                                                               *)
(***************************************************************************)

Rectangle_normalize(self) ==
    Rectangle(Point(FMin(self.top_left.x, self.bottom_right.x),
                    FMin(self.top_left.y, self.bottom_right.y)),
              Point(FMax(self.top_left.x, self.bottom_right.x),
                    FMax(self.top_left.y, self.bottom_right.y)))

Rectangle_length(self) == FAbs(FSub(self.bottom_right.x, self.top_left.x))

\* A slip that measures the x axis twice.
Rectangle_height_xaxis(self) == FAbs(FSub(self.bottom_right.x, self.top_left.x))

Rectangle_height(self) == FAbs(FSub(self.bottom_right.y, self.top_left.y))

\* A validity check that answers "no" instead of raising its error.
Rectangle_is_valid_false(self) ==
    LET normalized == Rectangle_normalize(self)
        length == Rectangle_length(normalized)
        height == Rectangle_height(normalized)
    IN  IF FGt(length, Zero) \/ FGt(height, Zero) THEN Ok(TRUE) ELSE Ok(FALSE)

Rectangle_is_valid(self) ==
    LET normalized == Rectangle_normalize(self)
        length == Rectangle_length(normalized)
        height == Rectangle_height(normalized)
    IN  IF FGt(length, Zero) \/ FGt(height, Zero)
        THEN Ok(TRUE)
        ELSE Err(RectangleError)

\* The area of the corners as given: signed differences, no normalisation.
Rectangle_area_raw(self) ==
    FMul(FSub(self.bottom_right.x, self.top_left.x),
         FSub(self.bottom_right.y, self.top_left.y))

Rectangle_area(self) ==
    LET normalized == Rectangle_normalize(self)
    IN  FMul(Rectangle_length(normalized), Rectangle_height(normalized))

(***************************************************************************)
(* Circle                                                                  *)
(***************************************************************************)

\* A validity check that lets a zero radius through.
Circle_is_valid_ge(self) ==
    IF FLe(Zero, self.radius) THEN Ok(TRUE) ELSE Err(CircleError)

Circle_is_valid(self) ==
    IF FGt(self.radius, Zero) THEN Ok(TRUE) ELSE Err(CircleError)

Circle_area(self) == FMul(PI, FSquare(self.radius))

(***************************************************************************)
(* Polygon                                                                 *)
(***************************************************************************)

\* A validity check that accepts triangles.
Polygon_is_valid_ge3(self) ==
    IF Len(self.points) >= 3 THEN Ok(TRUE) ELSE Err(PolygonError)

Polygon_is_valid(self) ==
    IF Len(self.points) > 3 THEN Ok(TRUE) ELSE Err(PolygonError)

\* The body of the loop for index i (1-based here, 0-based in the source):
\* j is the next index, wrapping to the first point after the last.
ShoelaceStep(points, i, area) ==
    LET n == Len(points)
        j == (i % n) + 1
    IN  FSub(FAdd(area, FMul(points[i].x, points[j].y)),
             FMul(points[j].x, points[i].y))

\* The loop from index i on, with the running value of `area`.
RECURSIVE ShoelaceLoop(_, _, _)
ShoelaceLoop(points, i, area) ==
    IF i > Len(points) THEN area
    ELSE ShoelaceLoop(points, i + 1, ShoelaceStep(points, i, area))

\* A loop that stops before the edge from the last point back to the first.
Polygon_area_open(self) ==
    FHalf(FAbs(ShoelaceLoop(SubSeq(self.points, 1, Len(self.points) - 1), 1, Zero)))

Polygon_area(self) == FHalf(FAbs(ShoelaceLoop(self.points, 1, Zero)))

(***************************************************************************)
(* HasArea dispatch and calc_area                                          *)
(***************************************************************************)

\* trait HasArea, resolved on the type of the target.
is_valid(target) ==
    CASE target.type = "Rectangle" -> Rectangle_is_valid(target)
      [] target.type = "Circle" -> Circle_is_valid(target)
      [] target.type = "Polygon" -> Polygon_is_valid(target)

area(target) ==
    CASE target.type = "Rectangle" -> Rectangle_area(target)
      [] target.type = "Circle" -> Circle_area(target)
      [] target.type = "Polygon" -> Polygon_area(target)

\* A wrapper that measures first and validates afterwards, and words the
\* failure itself.
calc_area_unchecked(target) ==
    LET a == area(target)
        v == is_valid(target)
    IN  IF IsErr(v) THEN [res |-> Err(GenericError), calls |-> <<"area", "is_valid">>]
        ELSE [res |-> Ok(a), calls |-> <<"area", "is_valid">>]

\* fn calc_area: the result, and the trait methods it called, in order.
calc_area(target) ==
    LET v == is_valid(target)
    IN  IF IsErr(v) THEN [res |-> v, calls |-> <<"is_valid">>]
        ELSE IF v.val THEN [res |-> Ok(area(target)), calls |-> <<"is_valid", "area">>]
        ELSE [res |-> Err(GenericError), calls |-> <<"is_valid">>]

calc_rectangle_area(s) == calc_area(s)
calc_circle_area(s) == calc_area(s)
calc_polygon_area(s) == calc_area(s)

(***************************************************************************)
(* Requests                                                                *)
(***************************************************************************)

\* Longest polygon a request carries.
MaxPoints == 4

Big == Scaled(1, 127)
A64 == Scaled(1, 64)

\* Coordinates of rectangle corners: small integers of both signs, an
\* integer that fills the significand, values whose difference overflows,
\* and infinity (what a JSON number beyond the f32 range deserialises to).
RectCoords ==
    {FromInt(0), FromInt(-3), FromInt(3), FromInt(4), FromInt(16777215),
     Big, FNeg(Big), Inf(0)}

RectPoints == {Point(px, py) : px \in RectCoords, py \in RectCoords}

Centers == {Point(FromInt(0), FromInt(0)), Point(FromInt(4), FromInt(3)),
            Point(Big, FNeg(Big))}

\* Radii: zero, negative, positive, the smallest subnormal (its square
\* underflows), 2^64 (its square overflows), and the infinities.
Radii ==
    {FromInt(0), FromInt(-1), FromInt(1), FromInt(2), Scaled(3, -1),
     Scaled(1, -149), A64, FNeg(A64), Inf(0), Inf(1)}

\* Polygon vertices: the square of side 4, a vertex with a negative
\* coordinate, two vertices at screen scale whose cross products need more
\* than 24 bits, and one whose cross product with itself overflows.
PolyPoints ==
    {Point(FromInt(0), FromInt(0)), Point(FromInt(4), FromInt(0)),
     Point(FromInt(4), FromInt(4)), Point(FromInt(0), FromInt(4)),
     Point(FromInt(-4), FromInt(3)),
     Point(FromInt(4377), FromInt(1545)), Point(FromInt(104), FromInt(3833)),
     Point(A64, A64)}

Polygons == UNION {[1..n -> PolyPoints] : n \in 0..MaxPoints}

NoShape == [type |-> "None"]
NoResult == Err("")

\* No request is being served: nothing of an earlier request is kept.
Init ==
    /\ cmd = "none"
    /\ shape = NoShape
    /\ res = NoResult
    /\ calls = <<>>

\* #[tauri::command] calc_rectangle_area: the deserialised shape, the result
\* and the trait methods called on the way.
CalcRectangleArea ==
    /\ cmd = "none"
    /\ \E tl \in RectPoints, br \in RectPoints :
          LET out == calc_rectangle_area(Rectangle(tl, br))
          IN  /\ cmd' = "calc_rectangle_area"
              /\ shape' = Rectangle(tl, br)
              /\ res' = out.res
              /\ calls' = out.calls

\* #[tauri::command] calc_circle_area
CalcCircleArea ==
    /\ cmd = "none"
    /\ \E c \in Centers, r \in Radii :
          LET out == calc_circle_area(Circle(c, r))
          IN  /\ cmd' = "calc_circle_area"
              /\ shape' = Circle(c, r)
              /\ res' = out.res
              /\ calls' = out.calls

\* #[tauri::command] calc_polygon_area
CalcPolygonArea ==
    /\ cmd = "none"
    /\ \E pts \in Polygons :
          LET out == calc_polygon_area(Polygon(pts))
          IN  /\ cmd' = "calc_polygon_area"
              /\ shape' = Polygon(pts)
              /\ res' = out.res
              /\ calls' = out.calls

\* The command returns: the result goes to the caller and the shape, owned
\* by the command, is dropped.
Return ==
    /\ cmd # "none"
    /\ cmd' = "none"
    /\ shape' = NoShape
    /\ res' = NoResult
    /\ calls' = <<>>

Next == CalcRectangleArea \/ CalcCircleArea \/ CalcPolygonArea \/ Return

Spec == Init /\ [][Next]_vars

(***************************************************************************)
(* Properties                                                              *)
(*                                                                         *)
(* Arithmetic in a property is f32 arithmetic, as in the program.          *)
(***************************************************************************)

SameResult(r1, r2) ==
    /\ r1.tag = r2.tag
    /\ IF IsOk(r1) THEN r1.val = r2.val ELSE r1.msg = r2.msg

Failed(r, text) == IsErr(r) /\ r.msg = text
Returned(r, v) == IsOk(r) /\ r.val = v

\* Small integers, which f32 holds exactly and on which products and sums of
\* a few terms are exact.
SmallInts == -4..4
IsSmallInt(f) == \E n \in SmallInts : f = FromInt(n)
IntOf(f) == CHOOSE n \in SmallInts : f = FromInt(n)

RectangleServed == cmd = "calc_rectangle_area"
CircleServed == cmd = "calc_circle_area"
PolygonServed == cmd = "calc_polygon_area"

\* The extents of the rectangle of the request, measured on the corners as
\* the caller gave them.
GivenLength == FAbs(FSub(shape.bottom_right.x, shape.top_left.x))
GivenHeight == FAbs(FSub(shape.bottom_right.y, shape.top_left.y))

\* Every coordinate of the rectangle of the request is a finite number.
FiniteCorners ==
    /\ IsFin(shape.top_left.x) /\ IsFin(shape.top_left.y)
    /\ IsFin(shape.bottom_right.x) /\ IsFin(shape.bottom_right.y)

\* C1: for every rectangle (here: with finite corners) calc_rectangle_area
\* succeeds iff length > 0 or height > 0; it returns the rectangle error
\* exactly when both extents are zero, i.e. the two corners coincide; and a
\* rectangle with exactly one zero extent (the corners agree on one axis
\* only) is accepted and yields area 0.
C1_RectangleValidity ==
    (RectangleServed /\ FiniteCorners) =>
        LET sameX == shape.top_left.x = shape.bottom_right.x
            sameY == shape.top_left.y = shape.bottom_right.y
        IN  /\ IsOk(res) <=> (FGt(GivenLength, Zero) \/ FGt(GivenHeight, Zero))
            /\ Failed(res, RectangleError) <=>
                  (FLe(GivenLength, Zero) /\ FLe(GivenHeight, Zero))
            /\ Failed(res, RectangleError) <=> (sameX /\ sameY)
            /\ (IsZero(GivenLength) # IsZero(GivenHeight)) => Returned(res, Zero)

\* C2: the outcome of calc_rectangle_area does not depend on the order of the
\* corners: exchanging the corners, or only their x or only their y
\* coordinates, or normalising them first, gives the same Ok/Err outcome and
\* the same area, and area(normalize(r)) = area(r).
C2_CornerOrderIndependent ==
    RectangleServed =>
        LET tl == shape.top_left
            br == shape.bottom_right
        IN  /\ SameResult(calc_rectangle_area(Rectangle(br, tl)).res, res)
            /\ SameResult(calc_rectangle_area(
                   Rectangle(Point(br.x, tl.y), Point(tl.x, br.y))).res, res)
            /\ SameResult(calc_rectangle_area(
                   Rectangle(Point(tl.x, br.y), Point(br.x, tl.y))).res, res)
            /\ SameResult(calc_rectangle_area(Rectangle_normalize(shape)).res, res)
            /\ Rectangle_area(Rectangle_normalize(shape)) = Rectangle_area(shape)

\* C2 witness: a rectangle given with its x coordinates in reverse order and
\* its y coordinates in order was measured: (4,0)-(0,3) has area 12.
C2_Witness ==
    /\ RectangleServed
    /\ FGt(shape.top_left.x, shape.bottom_right.x)
    /\ FLt(shape.top_left.y, shape.bottom_right.y)
    /\ Returned(res, FromInt(12))

\* C3: for every rectangle that validation accepts, calc_rectangle_area
\* returns Ok(length * height), with length = |bottom_right.x - top_left.x|
\* and height = |bottom_right.y - top_left.y| taken on the corners as given;
\* on small integer corners this is the exact integer product, and
\* (0,0)-(4,3) gives 12.
C3_RectangleArea ==
    (RectangleServed /\ IsOk(Rectangle_is_valid(shape))) =>
        LET tl == shape.top_left
            br == shape.bottom_right
        IN  /\ Returned(res, FMul(GivenLength, GivenHeight))
            /\ (IsSmallInt(tl.x) /\ IsSmallInt(tl.y) /\ IsSmallInt(br.x) /\ IsSmallInt(br.y))
                  => Returned(res, FromInt(Abs(IntOf(br.x) - IntOf(tl.x))
                                           * Abs(IntOf(br.y) - IntOf(tl.y))))
            /\ (tl = Point(FromInt(0), FromInt(0)) /\ br = Point(FromInt(4), FromInt(3)))
                  => Returned(res, FromInt(12))

\* C3 witness: the rectangle (0,0)-(4,3) was accepted and measured.
C3_Witness ==
    /\ RectangleServed
    /\ shape.top_left = Point(FromInt(0), FromInt(0))
    /\ shape.bottom_right = Point(FromInt(4), FromInt(3))
    /\ IsOk(res)

\* C4: for every circle with radius r > 0, calc_circle_area returns
\* Ok(PI * r^2) whatever the center (radius 2 gives 4 PI); for radius <= 0 it
\* returns the circle error and no number.
C4_CircleArea ==
    CircleServed =>
        LET r == shape.radius
        IN  /\ FGt(r, Zero) => Returned(res, FMul(PI, FMul(r, r)))
            /\ FLe(r, Zero) => Failed(res, CircleError)
            /\ r = FromInt(2) => Returned(res, Scaled(13176795, -20))
            /\ \A c \in Centers : SameResult(calc_circle_area(Circle(c, r)).res, res)

\* C4 witness: a circle of radius 2 centred away from the origin was measured.
C4_Witness ==
    /\ CircleServed
    /\ shape.radius = FromInt(2)
    /\ shape.center = Point(FromInt(4), FromInt(3))
    /\ IsOk(res)

RECURSIVE ShoelaceSum(_, _)
ShoelaceSum(pts, k) ==
    IF k = 0 THEN Zero
    ELSE LET nxt == IF k = Len(pts) THEN 1 ELSE k + 1
         IN  FSub(FAdd(ShoelaceSum(pts, k - 1), FMul(pts[k].x, pts[nxt].y)),
                  FMul(pts[nxt].x, pts[k].y))

\* The same sum over the integers.
RECURSIVE IntShoelaceSum(_, _)
IntShoelaceSum(pts, k) ==
    IF k = 0 THEN 0
    ELSE LET nxt == IF k = Len(pts) THEN 1 ELSE k + 1
         IN  IntShoelaceSum(pts, k - 1)
                 + IntOf(pts[k].x) * IntOf(pts[nxt].y)
                 - IntOf(pts[nxt].x) * IntOf(pts[k].y)

Square == <<Point(FromInt(0), FromInt(0)), Point(FromInt(4), FromInt(0)),
            Point(FromInt(4), FromInt(4)), Point(FromInt(0), FromInt(4))>>

Rotate(pts, k) == [i \in 1..Len(pts) |-> pts[((i + k - 1) % Len(pts)) + 1]]
Reverse(pts) == [i \in 1..Len(pts) |-> pts[Len(pts) + 1 - i]]

\* C7: the area Polygon::area returns is the same for every cyclic rotation
\* of the point sequence and for the reversed sequence.
C7_RotationReversalInvariant ==
    (PolygonServed /\ IsOk(res)) =>
        LET pts == shape.points
        IN  /\ \A k \in 1..Len(pts) :
                  Polygon_area(Polygon(Rotate(pts, k))) = res.val
            /\ Polygon_area(Polygon(Reverse(pts))) = res.val

\* C9: calc_area runs the validity check before the area function: an error
\* of is_valid is returned unchanged and area is not called; when is_valid
\* returns true the result is Ok(area()).
C9_ValidateThenArea ==
    cmd # "none" =>
        LET v == is_valid(shape)
        IN  /\ Len(calls) >= 1 /\ calls[1] = "is_valid"
            /\ IsErr(v) => (SameResult(res, v) /\ calls = <<"is_valid">>)
            /\ (IsOk(v) /\ v.val) =>
                  (Returned(res, area(shape)) /\ calls = <<"is_valid", "area">>)

\* C9 witness: a circle of radius zero was refused with the circle's own
\* message, after the validity check alone.
C9_Witness ==
    /\ CircleServed
    /\ shape.radius = Zero
    /\ Failed(res, CircleError)
    /\ calls = <<"is_valid">>

\* C10: is_valid of a Rectangle, Circle or Polygon never returns Ok(false),
\* and no command returns the generic error "The shape object is invalid!".
C10_NoGenericError ==
    cmd # "none" =>
        /\ ~(IsOk(is_valid(shape)) /\ is_valid(shape).val = FALSE)
        /\ ~Failed(res, GenericError)

\* C10 witness: a rectangle whose corners coincide was refused, with the
\* rectangle's message.
C10_Witness ==
    /\ RectangleServed
    /\ shape.top_left = shape.bottom_right
    /\ Failed(res, RectangleError)

====
